---- MODULE Spec2Model ----
(***************************************************************************)
(* A model of scorpiui's reactive state layer (src/scorpiui/core/state.py):*)
(* one notifier object (a StateNotifier or a ComponentState), its          *)
(* subscriber dictionary, the threads that call into it, and the           *)
(* state_change messages it emits.                                         *)
(*                                                                         *)
(* _subscribers is a CPython dict.  It is modelled as CPython keeps it: an *)
(* entries array in insertion order in which `del` leaves a hole, and a    *)
(* values() iterator that remembers its position, the dict's size when it  *)
(* was created and the number of items it still expects.  The iterator     *)
(* raises RuntimeError when the size changed, or when it finds an item     *)
(* after it has handed out as many as the dict held at its creation.  The  *)
(* entries array is only compacted on the sixth insertion, which MaxSubs   *)
(* keeps out of reach.                                                     *)
(*                                                                         *)
(* Every call is a frame on its thread's stack, and is executed in the     *)
(* steps between which another thread, or a subscriber's callback, can     *)
(* observe or change the notifier.  A frame also carries the history of    *)
(* its own call (what it saw, whom it invoked, what it emitted), which the *)
(* properties read; the program's behaviour never depends on it.           *)
(***************************************************************************)
EXTENDS Integers, Sequences, FiniteSets, TLC

\* Bounds of the model.
MaxOps == 2     \* set_state/update_state calls made by the threads in a run
MaxSubs == 2    \* subscribe calls in a run (every call draws a fresh id)

\* The values set_state is called with.  The code only ever compares them, so
\* two distinct values exercise every path; update_state adds the values its
\* updater computes.
Values == {0, 1}

\* The threads that may call into the notifier.
Workers == {"w1", "w2"}

\* What a subscriber's callback does when it is invoked (it always records
\* the value it was passed):
\*   rec      returns
\*   raise    raises an Exception
\*   unsub    unsubscribes itself
\*   sub      subscribes a new recording callback
\*   reenter  calls set_state(0) on the notifier unless it was passed 0
Kinds == {"rec", "raise", "unsub", "sub", "reenter"}

\* The component_id the ComponentState is constructed with.
ComponentId == "counter"

VARIABLES
    cls,          \* the notifier's class: "StateNotifier" or "ComponentState"
    state,        \* StateNotifier._state
    subscribers,  \* StateNotifier._subscribers: the dict's entries (0: a hole)
    callbacks,    \* callbacks[id]: the callback subscribed under id
    stack,        \* stack[w]: the frames of thread w, innermost last
    outbox,       \* the state_change messages handed to the transport
    ops,          \* history: set_state/update_state calls made by the threads
    removed,      \* history: the issued ids whose unsubscribe has returned
    got,          \* history: got[id], the invocations of id's callback
    want,         \* history: want[id], calls since id subscribed whose value differed
    mutInPass,    \* history: a subscribe/unsubscribe ran while a pass was running
    version,      \* history: the assignments of _state made so far
    event_handlers, \* events.event_handlers: the dict's entries, in insertion order
    connected,    \* the clients connected to the socket server
    sent,         \* the messages emitted while the latest inbound message was handled
    req,          \* history: the latest inbound message and what its handling did
    registered,   \* history: registered[id], the handlers registered under id, in order
    raw,          \* the argument of the latest EventData.from_dict call
    event,        \* the EventData that call returned
    states,       \* GlobalState._states: key -> notifier
    nids,         \* the notifiers GlobalState has constructed so far
    lastCall,     \* history: the latest GlobalState call and how it ended
    comp_state,   \* Component._state
    prev_state,   \* Component._prev_state
    watchers,     \* Component._watchers: the dict's entries, in insertion order
    effects,      \* Component._effects
    bindings,     \* bindings[c]: self.bindings of the instance of class c
    lifecycle_state, \* Component.lifecycle_state
    update_count, \* Component._context.update_count
    sets,         \* history: Component.set_state calls made
    saved,        \* history: the states before the saving set_state calls not undone
    unsaved,      \* history: a set_state(save_history=False) was made
    bound,        \* history: bound[c], the rules of the bind_state calls that returned
    last,         \* history: the latest component call and what it did
    context,      \* Component._context: the dict its state field holds, and whether it is _state
    buttons       \* history: the Buttons constructed, in order

vars == <<cls, state, subscribers, callbacks, stack, outbox, ops,
          removed, got, want, mutInPass, version,
          event_handlers, connected, sent, req, registered, raw, event,
          states, nids, lastCall,
          comp_state, prev_state, watchers, effects, bindings, lifecycle_state,
          update_count, sets, saved, unsaved, bound, last, context, buttons>>

\* The variables of the notifier, of the event layer, of payload
\* normalization, of the global registry and of the components.
notifierVars == <<cls, state, subscribers, callbacks, stack, outbox, ops,
                  removed, got, want, mutInPass, version>>
eventVars == <<event_handlers, connected, sent, req, registered>>
normVars == <<raw, event>>
globalVars == <<states, nids, lastCall>>
componentVars == <<comp_state, prev_state, watchers, effects, bindings,
                   lifecycle_state, update_count, sets, saved, unsaved, bound,
                   last, context>>
registryVars == <<buttons>>

----------------------------------------------------------------------------
\* The dict and its iterator.

Live(entries) == {entries[i] : i \in 1..Len(entries)} \ {0}

\* len(self._subscribers)
Used(entries) == Cardinality(Live(entries))

\* self._subscribers[subscriber_id] = StateSubscriber(...): a fresh key is
\* appended to the entries.
DictInsert(entries, id) == Append(entries, id)

\* if subscriber_id in self._subscribers: del self._subscribers[subscriber_id]
DictDelete(entries, id) ==
    [i \in 1..Len(entries) |-> IF entries[i] = id THEN 0 ELSE entries[i]]

\* The first entry after position pos that is not a hole (0: there is none).
NextEntry(entries, pos) ==
    LET rest == {i \in (pos + 1)..Len(entries) : entries[i] # 0}
    IN  IF rest = {} THEN 0 ELSE CHOOSE i \in rest : \A j \in rest : i <= j

\* next() on the values() iterator it: "error" (RuntimeError), "stop"
\* (StopIteration) or "item".
IterOutcome(entries, it) ==
    IF it.used # Used(entries) THEN "error"
    ELSE IF NextEntry(entries, it.pos) = 0 THEN "stop"
    ELSE IF it.len = 0 THEN "error"
    ELSE "item"

----------------------------------------------------------------------------
\* Frames.

NewFrame(op, arg) ==
    [op |-> op,
     pc |-> IF op = "update_state" THEN "update" ELSE "cmp",
     arg |-> arg,           \* new_state (-1: not computed yet)
     pre |-> -1,            \* history: _state as the comparison read it
     snap |-> {},           \* history: the ids registered when the call began
     psnap |-> {},          \* history: the ids registered when the pass began
     it |-> [pos |-> 0, used |-> 0, len |-> 0],
     cur |-> 0,             \* the subscriber the loop holds
     inv |-> <<>>,          \* history: the invocations of this pass
     raised |-> FALSE,      \* history: a callback of this pass raised
     emit |-> "none",       \* history: "none", "ok" or "fail"
     emits |-> 0,           \* history: calls of emit
     emitAt |-> -1,         \* history: invocations made before the emit
     msg |-> -1,            \* history: the state the message carried
     stored |-> FALSE,      \* history: the call assigned _state
     exc |-> FALSE,         \* the call ended by an exception
     dirty |-> FALSE,       \* history: another call stored during the call
     mutated |-> FALSE,     \* history: a subscribe/unsubscribe happened during it
     removed0 |-> removed]  \* history: ids already unsubscribed when it began

Top(w) == stack[w][Len(stack[w])]

SetTop(stk, w, f) == [stk EXCEPT ![w] = [@ EXCEPT ![Len(@)] = f]]

Idle(w) == stack[w] = <<>>

At(w, pc) == stack[w] # <<>> /\ Top(w).pc = pc

InPass(f) == f.pc \in {"iter", "call", "incall"}

\* History: every call still running, but frame d of thread w, saw a store.
MarkDirty(stk, w, d) ==
    [x \in Workers |->
        [i \in 1..Len(stk[x]) |->
            IF (x = w /\ i = d) \/ stk[x][i].pc = "done" THEN stk[x][i]
            ELSE [stk[x][i] EXCEPT !.dirty = TRUE]]]

\* History: every call still running saw the subscribers change.
MarkMutated(stk) ==
    [x \in Workers |->
        [i \in 1..Len(stk[x]) |->
            IF stk[x][i].pc = "done" THEN stk[x][i]
            ELSE [stk[x][i] EXCEPT !.mutated = TRUE]]]

SomePassRunning(stk) ==
    \E x \in Workers : \E i \in 1..Len(stk[x]) : InPass(stk[x][i])

----------------------------------------------------------------------------
\* StateNotifier.__init__ / ComponentState.__init__

Init ==
    /\ cls \in {"StateNotifier", "ComponentState"}
    /\ state = 0
    /\ subscribers = <<>>
    /\ callbacks = <<>>
    /\ stack = [w \in Workers |-> <<>>]
    /\ outbox = <<>>
    /\ ops = 0
    /\ removed = {}
    /\ got = <<>>
    /\ want = <<>>
    /\ mutInPass = FALSE
    /\ version = 0
    /\ event_handlers = <<>>
    /\ connected = {}
    /\ sent = <<>>
    /\ req = [kind |-> "none"]
    /\ registered = [id \in {"a", "b"} |-> <<>>]
    /\ raw = [kind |-> "none"]
    /\ event = [kind |-> "none"]
    /\ states = <<>>
    /\ nids = 0
    /\ lastCall = [op |-> "none"]
    /\ comp_state = <<>>
    /\ prev_state = <<>>
    /\ watchers = <<>>
    /\ effects = <<>>
    /\ bindings = [c \in {"BaseComponent", "Component"} |-> <<>>]
    /\ lifecycle_state = "created"
    /\ update_count = 0
    /\ sets = 0
    /\ saved = <<>>
    /\ unsaved = FALSE
    /\ bound = [c \in {"BaseComponent", "Component"} |-> <<>>]
    /\ last = [op |-> "none"]
    /\ context = [state |-> <<>>, same |-> TRUE]
    /\ buttons = <<>>

----------------------------------------------------------------------------
\* subscribe and unsubscribe.

\* The effect of subscribe(callback) on the notifier, whoever calls it.
DoSubscribe(k, stk) ==
    LET id == Len(callbacks) + 1
    IN  /\ Len(callbacks) < MaxSubs
        /\ subscribers' = DictInsert(subscribers, id)
        /\ callbacks' = Append(callbacks, k)
        /\ got' = Append(got, 0)
        /\ want' = Append(want, 0)
        /\ mutInPass' = (mutInPass \/ SomePassRunning(stk))
        /\ stack' = MarkMutated(stk)

\* The effect of unsubscribe(subscriber_id) on the notifier.
DoUnsubscribe(id, stk) ==
    /\ subscribers' = DictDelete(subscribers, id)
    /\ removed' = IF id \in 1..Len(callbacks) THEN removed \cup {id} ELSE removed
    /\ mutInPass' = (mutInPass \/ (id \in Live(subscribers) /\ SomePassRunning(stk)))
    /\ stack' = IF id \in Live(subscribers) THEN MarkMutated(stk) ELSE stk

\* A thread calls subscribe(callback).
subscribe(w, k) ==
    /\ Idle(w)
    /\ DoSubscribe(k, stack)
    /\ UNCHANGED <<version, cls, state, outbox, ops, removed>>
    /\ UNCHANGED <<eventVars, normVars, globalVars, componentVars, registryVars>>

\* A subscriber_id that subscribe never returns.
UnknownId == MaxSubs + 1

\* A thread calls unsubscribe(subscriber_id) with an id subscribe returned
\* (registered or already removed) or with an unknown one.
unsubscribe(w, id) ==
    /\ Idle(w)
    /\ id \in 1..Len(callbacks) \/ id = UnknownId
    /\ DoUnsubscribe(id, stack)
    /\ UNCHANGED <<version, cls, state, callbacks, outbox, ops, got, want>>
    /\ UNCHANGED <<eventVars, normVars, globalVars, componentVars, registryVars>>

----------------------------------------------------------------------------
\* set_state and update_state.

\* A comparison that never finds the two values equal.
NeverEq(a, b) == FALSE

\* new_state == self._state: Python's value equality.
ValueEq(a, b) == a = b

\* An updater that returns what it is given.
UpdaterSame(c) == c

\* The updater the threads pass to update_state: lambda c: c + 1.
Updater(c) == c + 1

\* A thread calls set_state(v).
call_set_state(w, v) ==
    /\ Idle(w)
    /\ ops < MaxOps
    /\ ops' = ops + 1
    /\ stack' = [stack EXCEPT ![w] = <<NewFrame("set_state", v)>>]
    /\ UNCHANGED <<version, cls, state, subscribers, callbacks, outbox, removed,
                   got, want, mutInPass>>
    /\ UNCHANGED <<eventVars, normVars, globalVars, componentVars, registryVars>>

\* A thread calls update_state(lambda c: c + 1).
call_update_state(w) ==
    /\ Idle(w)
    /\ ops < MaxOps
    /\ ops' = ops + 1
    /\ stack' = [stack EXCEPT ![w] = <<NewFrame("update_state", -1)>>]
    /\ UNCHANGED <<version, cls, state, subscribers, callbacks, outbox, removed,
                   got, want, mutInPass>>
    /\ UNCHANGED <<eventVars, normVars, globalVars, componentVars, registryVars>>

\* update_state: new_state = updater(self._state), then self.set_state(new_state).
update_state(w) ==
    /\ At(w, "update")
    /\ stack' = SetTop(stack, w, [Top(w) EXCEPT !.arg = Updater(state), !.pc = "cmp"])
    /\ UNCHANGED <<version, cls, state, subscribers, callbacks, outbox, ops,
                   removed, got, want, mutInPass>>
    /\ UNCHANGED <<eventVars, normVars, globalVars, componentVars, registryVars>>

\* set_state: if new_state == self._state: return
set_state_compare(w) ==
    /\ At(w, "cmp")
    /\ LET f == Top(w)
           g == [f EXCEPT !.pre = state, !.snap = Live(subscribers)]
       IN  /\ stack' = SetTop(stack, w,
                  [g EXCEPT !.pc = IF ValueEq(f.arg, state) THEN "done" ELSE "store"])
           /\ want' = [i \in 1..Len(want) |->
                  IF f.arg # state /\ i \in Live(subscribers) THEN want[i] + 1
                  ELSE want[i]]
    /\ UNCHANGED <<version, cls, state, subscribers, callbacks, outbox, ops,
                   removed, got, mutInPass>>
    /\ UNCHANGED <<eventVars, normVars, globalVars, componentVars, registryVars>>

\* set_state: self._state = new_state, and _notify_subscribers starts its loop
\* over self._subscribers.values().
set_state_store(w) ==
    /\ At(w, "store")
    /\ LET f == Top(w)
           n == Used(subscribers)
           g == [f EXCEPT !.pc = "iter", !.stored = TRUE,
                          !.psnap = Live(subscribers),
                          !.it = [pos |-> 0, used |-> n, len |-> n]]
       IN  stack' = SetTop(MarkDirty(stack, w, Len(stack[w])), w, g)
    /\ state' = Top(w).arg
    /\ version' = version + 1
    /\ UNCHANGED <<cls, subscribers, callbacks, outbox, ops, removed,
                   got, want, mutInPass>>
    /\ UNCHANGED <<eventVars, normVars, globalVars, componentVars, registryVars>>

\* Where a call goes when the loop over the subscribers has ended:
\* ComponentState._notify_subscribers goes on to emit.
AfterLoop(c) == IF c = "ComponentState" THEN "emit" ELSE "done"

\* _notify_subscribers: the for statement takes the next subscriber.  A
\* RuntimeError of the iterator is raised outside the loop's try, and leaves
\* _notify_subscribers and set_state.
notify_next(w) ==
    /\ At(w, "iter")
    /\ LET f == Top(w)
           o == IterOutcome(subscribers, f.it)
           i == NextEntry(subscribers, f.it.pos)
       IN  stack' = SetTop(stack, w,
               CASE o = "item" ->
                        [f EXCEPT !.pc = "call", !.cur = subscribers[i],
                                  !.it = [pos |-> i, used |-> f.it.used,
                                          len |-> f.it.len - 1]]
                 [] o = "stop" -> [f EXCEPT !.pc = AfterLoop(cls)]
                 [] OTHER -> [f EXCEPT !.pc = "done", !.exc = TRUE])
    /\ UNCHANGED <<version, cls, state, subscribers, callbacks, outbox, ops,
                   removed, got, want, mutInPass>>
    /\ UNCHANGED <<eventVars, normVars, globalVars, componentVars, registryVars>>

\* A notifier that passes the value its call was given instead.
PassedValueOfCall(f) == f.arg

\* The value the callback is passed: subscriber.callback(self._state).
PassedValue(f) == state

\* _notify_subscribers' try/except around the callback: the frame after the
\* callback has returned, or has raised (an Exception, which is logged).
AfterCallback(f, raisedNow) ==
    [f EXCEPT !.pc = "iter", !.raised = @ \/ raisedNow]

\* History: the invocation of f.cur is recorded in the frame.
Invoked(f) ==
    [f EXCEPT !.cur = 0,
              !.inv = Append(@, [sub |-> f.cur, val |-> PassedValue(f),
                                 late |-> f.cur \in removed,
                                 cur |-> state, ver |-> version])]

\* _notify_subscribers invokes the callback of the subscriber it holds.
notify_call(w) ==
    /\ At(w, "call")
    /\ LET f == Top(w)
           id == f.cur
           k == callbacks[id]
           g == Invoked(f)
       IN  /\ got' = IF k = "sub" THEN Append([got EXCEPT ![id] = @ + 1], 0)
                     ELSE [got EXCEPT ![id] = @ + 1]
           /\ CASE k = "rec" ->
                     /\ stack' = SetTop(stack, w, AfterCallback(g, FALSE))
                     /\ UNCHANGED <<subscribers, callbacks, removed, want, mutInPass>>
                [] k = "raise" ->
                     /\ stack' = SetTop(stack, w, AfterCallback(g, TRUE))
                     /\ UNCHANGED <<subscribers, callbacks, removed, want, mutInPass>>
                [] k = "unsub" ->
                     /\ DoUnsubscribe(id, SetTop(stack, w, AfterCallback(g, FALSE)))
                     /\ UNCHANGED <<callbacks, want>>
                [] k = "sub" ->
                     /\ Len(callbacks) < MaxSubs
                     /\ subscribers' = DictInsert(subscribers, Len(callbacks) + 1)
                     /\ callbacks' = Append(callbacks, "rec")
                     /\ want' = Append(want, 0)
                     /\ mutInPass' = TRUE
                     /\ stack' = MarkMutated(SetTop(stack, w, AfterCallback(g, FALSE)))
                     /\ UNCHANGED removed
                [] k = "reenter" ->
                     /\ stack' = IF PassedValue(f) = 0
                                 THEN SetTop(stack, w, AfterCallback(g, FALSE))
                                 ELSE [stack EXCEPT ![w] =
                                         Append(SetTop(stack, w, [g EXCEPT !.pc = "incall"])[w],
                                                NewFrame("set_state", 0))]
                     /\ UNCHANGED <<subscribers, callbacks, removed, want, mutInPass>>
    /\ UNCHANGED <<version, cls, state, outbox, ops>>
    /\ UNCHANGED <<eventVars, normVars, globalVars, componentVars, registryVars>>

\* An emit without the try/except: what it raises leaves set_state.
AfterEmitUncaught(f, outcome) ==
    [f EXCEPT !.pc = "done", !.emit = outcome, !.emits = @ + 1,
              !.emitAt = Len(f.inv), !.msg = state, !.exc = (outcome = "fail")]

\* ComponentState._notify_subscribers' try/except around emit: the frame
\* after emit has returned ("ok") or raised ("fail", which is logged).
AfterEmit(f, outcome) ==
    [f EXCEPT !.pc = "done", !.emit = outcome, !.emits = @ + 1,
              !.emitAt = Len(f.inv), !.msg = state]

\* ComponentState._notify_subscribers: emit('state_change', {...}) after
\* super()._notify_subscribers().  The transport delivers or raises.
emit_state_change(w, outcome) ==
    /\ At(w, "emit")
    /\ stack' = SetTop(stack, w, AfterEmit(Top(w), outcome))
    /\ outbox' = IF outcome = "ok"
                 THEN Append(outbox, [event |-> "state_change",
                                      component_id |-> ComponentId,
                                      state |-> state])
                 ELSE outbox
    /\ UNCHANGED <<version, cls, state, subscribers, callbacks, ops, removed,
                   got, want, mutInPass>>
    /\ UNCHANGED <<eventVars, normVars, globalVars, componentVars, registryVars>>

\* set_state returns to its caller: to the thread, or to the callback that
\* called it, which returns (or raises what set_state raised) into the
\* try/except of the pass that invoked it.
return(w) ==
    /\ At(w, "done")
    /\ LET n == Len(stack[w])
           f == Top(w)
           rest == SubSeq(stack[w], 1, n - 1)
       IN  stack' = [stack EXCEPT ![w] =
               IF n = 1 THEN <<>>
               ELSE [rest EXCEPT ![n - 1] = AfterCallback(rest[n - 1], f.exc)]]
    /\ UNCHANGED <<version, cls, state, subscribers, callbacks, outbox, ops,
                   removed, got, want, mutInPass>>
    /\ UNCHANGED <<eventVars, normVars, globalVars, componentVars, registryVars>>

----------------------------------------------------------------------------
\* One thread, any callbacks.

Step(w) ==
    \/ \E v \in Values : call_set_state(w, v)
    \/ call_update_state(w)
    \/ update_state(w)
    \/ set_state_compare(w)
    \/ set_state_store(w)
    \/ notify_next(w)
    \/ notify_call(w)
    \/ \E o \in {"ok", "fail"} : emit_state_change(w, o)
    \/ return(w)

Next ==
    \/ Step("w1")
    \/ \E k \in Kinds : subscribe("w1", k)
    \/ \E id \in 1..UnknownId : unsubscribe("w1", id)

Spec == Init /\ [][Next]_vars

\* Several threads, callbacks that only record.

NextConc ==
    \/ \E w \in Workers : Step(w)
    \/ \E w \in Workers : subscribe(w, "rec")
    \/ \E w \in Workers : \E id \in 1..MaxSubs : unsubscribe(w, id)

SpecConc == Init /\ [][NextConc]_vars

\* One thread that only calls update_state(lambda c: c + 1), and callbacks
\* that only record.

NextCounter ==
    \/ subscribe("w1", "rec")
    \/ call_update_state("w1")
    \/ update_state("w1")
    \/ set_state_compare("w1")
    \/ set_state_store("w1")
    \/ notify_next("w1")
    \/ notify_call("w1")
    \/ \E o \in {"ok", "fail"} : emit_state_change("w1", o)
    \/ return("w1")

SpecCounter == Init /\ [][NextCounter]_vars

----------------------------------------------------------------------------
\* Payload normalization (src/scorpiui/core/events.py: EventData).
\*
\* Python values are strings here: None is "None", the empty dict is "{}".
\* A payload is what a client sends as an event's data: a mapping (dict) with
\* some of the fields, or anything else (raw).

None == "None"

Fields == {"value", "type", "target_id", "key", "meta"}

\* The values a mapping carries under each field.
FieldValues ==
    [value |-> {"x", None}, type |-> {"click", "change"}, target_id |-> {"t"},
     key |-> {"Enter"}, meta |-> {"{'x': 1}", None}]

AllFieldValues == UNION {FieldValues[k] : k \in Fields}

Mappings ==
    UNION {{m \in [D -> AllFieldValues] : \A k \in D : m[k] \in FieldValues[k]} :
           D \in SUBSET Fields}

Mapping(m) == [kind |-> "dict", raw |-> None, map |-> m]

Scalar(v) == [kind |-> "raw", raw |-> v, map |-> <<>>]

Payloads == {Mapping(m) : m \in Mappings} \cup {Scalar(v) : v \in {"5", "x", None}}

\* data.get(k, d)
DictGet(m, k, d) == IF k \in DOMAIN m THEN m[k] ELSE d

\* EventData(...): the dataclass.
EventData(value, event_type, target_id, key, meta) ==
    [kind |-> "EventData", value |-> value, event_type |-> event_type,
     target_id |-> target_id, key |-> key, meta |-> meta]

\* A normalization in which a missing type stays None.
FromDictNoDefault(data) ==
    IF data.kind # "dict" THEN EventData(data.raw, "change", None, None, None)
    ELSE EventData(DictGet(data.map, "value", None),
                   DictGet(data.map, "type", None),
                   DictGet(data.map, "target_id", None),
                   DictGet(data.map, "key", None),
                   DictGet(data.map, "meta", "{}"))

\* EventData.from_dict(data).  cls(value=data) leaves the other fields at the
\* dataclass defaults, of which meta is None.
FromDict(data) ==
    IF data.kind # "dict" THEN EventData(data.raw, "change", None, None, None)
    ELSE EventData(DictGet(data.map, "value", None),
                   DictGet(data.map, "type", "change"),
                   DictGet(data.map, "target_id", None),
                   DictGet(data.map, "key", None),
                   DictGet(data.map, "meta", "{}"))

\* EventData.from_dict is called with a payload.
from_dict(data) ==
    /\ raw' = data
    /\ event' = FromDict(data)
    /\ UNCHANGED <<notifierVars, eventVars, globalVars, componentVars, registryVars>>

\* A registered handler's wrapper is called with a payload, which it
\* converts: EventData.from_dict(args[0] if args[0] is not None else {}).
wrapper(arg) ==
    LET data == IF arg = Scalar(None) THEN Mapping(<<>>) ELSE arg
    IN  /\ raw' = data
        /\ event' = FromDict(data)
        /\ UNCHANGED <<notifierVars, eventVars, globalVars, componentVars, registryVars>>

NextNormalize ==
    \/ \E data \in Payloads : from_dict(data)
    \/ \E arg \in Payloads : wrapper(arg)

SpecNormalize == Init /\ [][NextNormalize]_vars

----------------------------------------------------------------------------
\* The global registry (src/scorpiui/core/state.py: GlobalState).
\*
\* _states maps a key to the StateNotifier registered under it.  A notifier
\* of the registry is its identity (the nid-th notifier constructed), its
\* state and the number of its subscribers.

Keys == {"k1", "k2"}

\* Notifiers GlobalState constructs in a run.
MaxNotifiers == 3

\* StateNotifier(initial_state)
NewNotifier(nid, initial_state) == [nid |-> nid, state |-> initial_state, subs |-> 0]

\* self._states[key] = notifier
DictSet(d, key, x) == [k \in DOMAIN d \cup {key} |-> IF k = key THEN x ELSE d[k]]

\* del self._states[key]
DictDel(d, key) == [k \in DOMAIN d \ {key} |-> d[k]]

\* A registration that replaces what the key holds.
RegisterStateOverwrite(d, key, initial_state, nid) ==
    [states |-> DictSet(d, key, NewNotifier(nid, initial_state)),
     raised |-> FALSE, result |-> nid]

\* GlobalState.register_state: what _states becomes, whether the call raised
\* (KeyError) and the notifier it returned (0: none).
RegisterState(d, key, initial_state, nid) ==
    IF key \in DOMAIN d
    THEN [states |-> d, raised |-> TRUE, result |-> 0]
    ELSE [states |-> DictSet(d, key, NewNotifier(nid, initial_state)),
          raised |-> FALSE, result |-> nid]

\* A lookup that creates the notifier it does not find.
GetStateCreates(d, key) ==
    IF key \notin DOMAIN d
    THEN [states |-> DictSet(d, key, NewNotifier(0, 0)), raised |-> FALSE, result |-> 0]
    ELSE [states |-> d, raised |-> FALSE, result |-> d[key].nid]

\* GlobalState.get_state
GetState(d, key) ==
    IF key \notin DOMAIN d
    THEN [states |-> d, raised |-> TRUE, result |-> 0]
    ELSE [states |-> d, raised |-> FALSE, result |-> d[key].nid]

\* GlobalState.remove_state
RemoveState(d, key) ==
    IF key \in DOMAIN d
    THEN [states |-> DictDel(d, key), raised |-> FALSE, result |-> 0]
    ELSE [states |-> d, raised |-> FALSE, result |-> 0]

\* History: the call, the registry it found and how it ended.
Called(op, key, arg, r) ==
    [op |-> op, key |-> key, arg |-> arg, before |-> states,
     raised |-> r.raised, result |-> r.result]

register_state(key, initial_state) ==
    /\ key \in DOMAIN states \/ nids < MaxNotifiers
    /\ LET r == RegisterState(states, key, initial_state, nids + 1)
       IN  /\ states' = r.states
           /\ nids' = IF r.raised THEN nids ELSE nids + 1
           /\ lastCall' = Called("register_state", key, initial_state, r)
    /\ UNCHANGED <<notifierVars, eventVars, normVars, componentVars, registryVars>>

get_state(key) ==
    /\ LET r == GetState(states, key)
       IN  /\ states' = r.states
           /\ lastCall' = Called("get_state", key, 0, r)
    /\ UNCHANGED <<nids, notifierVars, eventVars, normVars, componentVars, registryVars>>

remove_state(key) ==
    /\ LET r == RemoveState(states, key)
       IN  /\ states' = r.states
           /\ lastCall' = Called("remove_state", key, 0, r)
    /\ UNCHANGED <<nids, notifierVars, eventVars, normVars, componentVars, registryVars>>

\* The application calls set_state(v) on a notifier it registered.
registered_set_state(key, v) ==
    /\ key \in DOMAIN states
    /\ ~ValueEq(v, states[key].state)
    /\ states' = [states EXCEPT ![key].state = v]
    /\ lastCall' = [op |-> "set_state"]
    /\ UNCHANGED <<nids, notifierVars, eventVars, normVars, componentVars, registryVars>>

\* The application subscribes to a notifier it registered.
registered_subscribe(key) ==
    /\ key \in DOMAIN states
    /\ states[key].subs < MaxSubs
    /\ states' = [states EXCEPT ![key].subs = @ + 1]
    /\ lastCall' = [op |-> "subscribe"]
    /\ UNCHANGED <<nids, notifierVars, eventVars, normVars, componentVars, registryVars>>

NextGlobal ==
    \/ \E key \in Keys : \E v \in Values : register_state(key, v)
    \/ \E key \in Keys : get_state(key)
    \/ \E key \in Keys : remove_state(key)
    \/ \E key \in Keys : \E v \in Values : registered_set_state(key, v)
    \/ \E key \in Keys : registered_subscribe(key)

SpecGlobal == Init /\ [][NextGlobal]_vars

----------------------------------------------------------------------------
\* The event layer (src/scorpiui/core/events.py and the socket handlers of
\* src/scorpiui/core/renderer.py).
\*
\* An inbound message is handled in one step, by the thread of its client's
\* request; sent is what that handling emitted, in order.  emit is
\* flask_socketio's contextual emit: called as the code calls it, without
\* broadcast or to, it sends to the client whose message is being handled.

Clients == {"c1", "c2"}

EventIds == {"a", "b"}

Handlers == {"H1", "H2"}

\* Registrations in a run.
MaxRegs == 2

\* What a handler does when it is called:
\*   return          returns a value
\*   unserialisable  returns a value the transport cannot encode
\*   raise           raises an Exception
\*   update          counter_state.update_state(...), returns counter_state.state
\*   update_raise    counter_state.update_state(...), then raises
Behaviours == {"return", "unserialisable", "raise", "update", "update_raise"}

\* The data of an inbound mapping: absent, not a mapping, or a mapping.
DispatchData ==
    {[kind |-> "absent", raw |-> None, map |-> <<>>],
     Scalar("5"),
     Scalar(None),
     Mapping([value |-> "x", target_id |-> "t"])}

\* The inbound component_event messages: something that is not a mapping, a
\* mapping without event_id, and mappings with an event_id ("": empty or
\* null) and data.
Inbound ==
    {[kind |-> "raw", has_id |-> FALSE, event_id |-> None, data |-> Scalar(None)],
     [kind |-> "dict", has_id |-> FALSE, event_id |-> None, data |-> Scalar(None)]}
    \cup {[kind |-> "dict", has_id |-> TRUE, event_id |-> id, data |-> d] :
            id \in EventIds \cup {""}, d \in DispatchData}

\* emit(event, {...}) while sid's message is handled.
Emit(sid, ev, id, data) == [to |-> {sid}, event |-> ev, id |-> id, data |-> data]

\* A registration that never replaces an entry.
HandlersAppend(entries, id, h) == Append(entries, [key |-> id, handler |-> h])

\* event_handlers[event_id] = wrapper
HandlersSet(entries, id, h) ==
    IF \E i \in 1..Len(entries) : entries[i].key = id
    THEN [i \in 1..Len(entries) |->
            IF entries[i].key = id THEN [key |-> id, handler |-> h] ELSE entries[i]]
    ELSE Append(entries, [key |-> id, handler |-> h])

\* A lookup that falls back to the first registered handler.
HandlersGetAny(entries, id) ==
    IF entries = <<>> THEN "none" ELSE entries[1].handler

\* event_handlers.get(event_id): the handler, or "none".
HandlersGet(entries, id) ==
    LET hits == {i \in 1..Len(entries) : entries[i].key = id}
    IN  IF hits = {} THEN "none"
        ELSE entries[CHOOSE i \in hits : \A j \in hits : i <= j].handler

\* A handler whose update is undone when it raises.
RunHandlerRollsBack(b, sid, c, st) ==
    LET new == Updater(st)
        upd == b \in {"update", "update_raise"} /\ ~ValueEq(new, st)
        after == IF upd THEN new ELSE st
    IN  [raised |-> b \in {"raise", "update_raise"},
         response |-> CASE b = "return" -> "ok"
                        [] b = "unserialisable" -> "<object>"
                        [] b = "update" -> ToString(after)
                        [] OTHER -> None,
         encodable |-> b # "unserialisable",
         state |-> IF b = "update_raise" THEN st ELSE after,
         stored |-> upd,
         sent |-> IF upd /\ c = "ComponentState"
                  THEN <<Emit(sid, "state_change", ComponentId, ToString(after))>>
                  ELSE <<>>]

\* A handler that returns the state it found.
RunHandlerStale(b, sid, c, st) ==
    LET new == Updater(st)
        upd == b \in {"update", "update_raise"} /\ ~ValueEq(new, st)
        after == IF upd THEN new ELSE st
    IN  [raised |-> b \in {"raise", "update_raise"},
         response |-> CASE b = "return" -> "ok"
                        [] b = "unserialisable" -> "<object>"
                        [] b = "update" -> ToString(st)
                        [] OTHER -> None,
         encodable |-> b # "unserialisable",
         state |-> after,
         stored |-> upd,
         sent |-> IF upd /\ c = "ComponentState"
                  THEN <<Emit(sid, "state_change", ComponentId, ToString(after))>>
                  ELSE <<>>]

\* The handler itself: what it returns or raises, what it emitted and the
\* state it left.  update_state on the notifier (which has no subscribers
\* here) stores the new value and, for a ComponentState, emits state_change.
RunHandler(b, sid, c, st) ==
    LET new == Updater(st)
        upd == b \in {"update", "update_raise"} /\ ~ValueEq(new, st)
        after == IF upd THEN new ELSE st
    IN  [raised |-> b \in {"raise", "update_raise"},
         response |-> CASE b = "return" -> "ok"
                        [] b = "unserialisable" -> "<object>"
                        [] b = "update" -> ToString(after)
                        [] OTHER -> None,
         encodable |-> b # "unserialisable",
         state |-> after,
         stored |-> upd,
         sent |-> IF upd /\ c = "ComponentState"
                  THEN <<Emit(sid, "state_change", ComponentId, ToString(after))>>
                  ELSE <<>>]

\* A wrapper that logs the handler's exception and returns None.
WrapperSwallows(b, sid, c, st) ==
    [RunHandler(b, sid, c, st) EXCEPT !.raised = FALSE]

\* register_event.wrapper called with an EventData: it calls the handler,
\* and logs and re-raises what the handler raises.
WrapperCall(b, sid, c, st) == RunHandler(b, sid, c, st)

\* The outcome of handling a message that ran no handler.
NoHandler(st, out, exc) ==
    [sent |-> out, raised |-> exc, handler |-> "none", invoked |-> <<>>,
     hraised |-> FALSE, event |-> [kind |-> "none"], state |-> st, stored |-> FALSE]

\* A dispatch that keeps the target_id the client sent.
KeepTargetId(m, event_id) ==
    IF "target_id" \in DOMAIN m THEN m ELSE DictSet(m, "target_id", event_id)

\* data['target_id'] = event_id
SetTargetId(m, event_id) == DictSet(m, "target_id", event_id)

\* A dispatch that answers before the handler's messages go out.
RespondFirst(out, sid, id, response) ==
    <<Emit(sid, "event_response", id, response)>> \o out

\* emit('event_response', {...}) once the handler has returned: the message
\* follows what the handler emitted.
Respond(out, sid, id, response) ==
    Append(out, Emit(sid, "event_response", id, response))

\* handle_component_event, the body of its try.  On a message that is not a
\* mapping event_data.get raises.
Dispatch(sid, msg, b, c, st) ==
    IF msg.kind # "dict" THEN NoHandler(st, <<>>, TRUE)
    ELSE IF ~msg.has_id \/ msg.event_id = "" THEN NoHandler(st, <<>>, FALSE)
    ELSE LET h == HandlersGet(event_handlers, msg.event_id)
             d == IF msg.data.kind = "absent" THEN Mapping(<<>>) ELSE msg.data
             data == IF d.kind = "dict"
                     THEN Mapping(SetTargetId(d.map, msg.event_id))
                     ELSE d
             r == WrapperCall(b, sid, c, st)
             ok == ~r.raised /\ r.encodable
         IN  IF h = "none" THEN NoHandler(st, <<>>, FALSE)
             ELSE [sent |-> IF ok
                            THEN Respond(r.sent, sid, msg.event_id, r.response)
                            ELSE r.sent,
                   raised |-> ~ok,
                   handler |-> h,
                   invoked |-> <<h>>,
                   hraised |-> r.raised,
                   event |-> FromDict(data),
                   state |-> r.state,
                   stored |-> r.stored]

\* An except clause that reports the error and raises it again.
ExceptReraises(r, sid) ==
    IF r.raised
    THEN [r EXCEPT !.sent = Append(@, Emit(sid, "error", None, "str(e)"))]
    ELSE r

\* handle_component_event's except Exception: the error is logged and
\* emit('error', {'message': str(e)}).
ComponentEventExcept(r, sid) ==
    IF r.raised
    THEN [r EXCEPT !.sent = Append(@, Emit(sid, "error", None, "str(e)")),
                   !.raised = FALSE]
    ELSE r

\* handle_component_event
HandleComponentEvent(sid, msg, b, c, st) ==
    ComponentEventExcept(Dispatch(sid, msg, b, c, st), sid)

\* A validation that also rejects an empty or null event_id.
WellFormedNonEmpty(msg) == msg.kind = "dict" /\ msg.has_id /\ msg.event_id # ""

\* A validation that lets every message through.
AnyMessage(msg) == TRUE

\* handle_socket_event: isinstance(data, dict) and 'event_id' in data
WellFormed(msg) == msg.kind = "dict" /\ msg.has_id

\* handle_socket_event's except Exception.
SocketEventExcept(r, sid) ==
    IF r.raised
    THEN [r EXCEPT !.sent = Append(@, Emit(sid, "error", None, "str(e)")),
                   !.raised = FALSE]
    ELSE r

\* A transport entry point without validation and without except clauses.
HandleUnguarded(sid, msg, b, c, st) == Dispatch(sid, msg, b, c, st)

\* handle_socket_event
HandleSocketEvent(sid, msg, b, c, st) ==
    SocketEventExcept(
        IF ~WellFormed(msg)
        THEN NoHandler(st, <<Emit(sid, "error", None, "Invalid event data")>>, FALSE)
        ELSE HandleComponentEvent(sid, msg, b, c, st),
        sid)

\* History: the message, and what its handling did, as req keeps them.
Request(sid, msg, b, r) ==
    [kind |-> "component_event", sid |-> sid, msg |-> msg, behaviour |-> b,
     handler |-> r.handler, invoked |-> r.invoked, hraised |-> r.hraised,
     raised |-> r.raised, event |-> r.event, stored |-> r.stored,
     before |-> event_handlers, pre |-> state,
     afterRaise |-> /\ req.kind = "component_event"
                    /\ req.handler # "none"
                    /\ req.behaviour \in {"raise", "update_raise"}]

\* The application registers handler h under event_id.
register_event(id, h) ==
    /\ Len(registered["a"]) + Len(registered["b"]) < MaxRegs
    /\ event_handlers' = HandlersSet(event_handlers, id, h)
    /\ registered' = [registered EXCEPT ![id] = Append(@, h)]
    /\ sent' = <<>>
    /\ req' = [kind |-> "register_event", id |-> id, handler |-> h]
    /\ UNCHANGED connected
    /\ UNCHANGED <<notifierVars, normVars, globalVars, componentVars, registryVars>>

\* A client connects: handle_connect.
handle_connect(sid) ==
    /\ sid \notin connected
    /\ connected' = connected \cup {sid}
    /\ sent' = <<Emit(sid, "connection_response", None, "connected")>>
    /\ req' = [kind |-> "connect", sid |-> sid]
    /\ UNCHANGED <<event_handlers, registered>>
    /\ UNCHANGED <<notifierVars, normVars, globalVars, componentVars, registryVars>>

\* A client disconnects: handle_disconnect.
handle_disconnect(sid) ==
    /\ sid \in connected
    /\ connected' = connected \ {sid}
    /\ sent' = <<>>
    /\ req' = [kind |-> "disconnect", sid |-> sid]
    /\ UNCHANGED <<event_handlers, registered>>
    /\ UNCHANGED <<notifierVars, normVars, globalVars, componentVars, registryVars>>

\* The message reaches a registered handler.
Resolves(msg) ==
    /\ WellFormed(msg)
    /\ msg.event_id # ""
    /\ HandlersGet(event_handlers, msg.event_id) # "none"

\* A connected client sends a component_event message: handle_socket_event.
\* The handler's behaviour b only matters when a handler is reached, and
\* the handlers count within the values of the model.
handle_socket_event(sid, msg, b) ==
    /\ sid \in connected
    /\ Resolves(msg) \/ b = "return"
    /\ b \in {"update", "update_raise"} => Updater(state) \in Values
    /\ LET r == HandleSocketEvent(sid, msg, b, cls, state)
       IN  /\ sent' = r.sent
           /\ req' = Request(sid, msg, b, r)
           /\ state' = r.state
           /\ version' = IF r.stored THEN version + 1 ELSE version
           /\ outbox' = IF r.stored /\ cls = "ComponentState"
                        THEN Append(outbox, [event |-> "state_change",
                                             component_id |-> ComponentId,
                                             state |-> r.state])
                        ELSE outbox
    /\ UNCHANGED <<event_handlers, connected, registered>>
    /\ UNCHANGED <<cls, subscribers, callbacks, stack, ops, removed, got, want,
                   mutInPass>>
    /\ UNCHANGED <<normVars, globalVars, componentVars, registryVars>>

NextEvents ==
    \/ \E id \in EventIds : \E h \in Handlers : register_event(id, h)
    \/ \E sid \in Clients : handle_connect(sid)
    \/ \E sid \in Clients : handle_disconnect(sid)
    \/ \E sid \in Clients : \E msg \in Inbound : \E b \in Behaviours :
           handle_socket_event(sid, msg, b)

\* The application's notifier is a ComponentState, as in the counter example.
InitEvents == Init /\ cls = "ComponentState"

SpecEvents == InitEvents /\ [][NextEvents]_vars

----------------------------------------------------------------------------
\* Components: one instance of Component (component.py) and one of
\* BaseComponent (base_component.py).

\* The keys of the component's state dict.
StateKeys == {"a", "b"}

\* The dicts set_state is called with.
NewStates ==
    {("a" :> "x"), ("a" :> "y"), ("b" :> "x"), ("a" :> "y") @@ ("b" :> "y")}

\* Component.set_state calls in a run.
MaxSets == 2

\* Handlers registered by Component.watch in a run.
MaxWatchers == 2

\* What a watcher does when it is called:
\*   record   returns
\*   raise    raises an Exception
\*   binding  the lambda of bind_state: self._handle_state_change(name, new_val)
WatcherKinds == {"record", "raise"}

\* A history append that ignores save_history.
SaveAlways(prev, st, save_history) == Append(prev, st)

\* if save_history: self._prev_state.append(self._state.copy())
SaveHistory(prev, st, save_history) ==
    IF save_history THEN Append(prev, st) ELSE prev

\* self._state.update(new_state)
StateUpdate(st, new_state) == new_state @@ st

\* The handlers registered so far, over all keys.
HandlerCount(ws) ==
    Cardinality(UNION {{<<i, j>> : j \in 1..Len(ws[i].handlers)} : i \in 1..Len(ws)})

\* self._watchers[state_key].append(handler), after creating the key's list.
\* A handler carries the number of its registration.
Watch(ws, state_key, h) ==
    LET w == [kind |-> h, no |-> HandlerCount(ws) + 1]
    IN  IF \E i \in 1..Len(ws) : ws[i].key = state_key
        THEN [i \in 1..Len(ws) |->
                IF ws[i].key = state_key
                THEN [ws[i] EXCEPT !.handlers = Append(@, w)]
                ELSE ws[i]]
        ELSE Append(ws, [key |-> state_key, handlers |-> <<w>>])

\* A test that only asks for the key to be in the state.
KeyPresent(st, old_state, key) == key \in DOMAIN st

\* key in self._state and
\* (key not in old_state or old_state[key] != self._state[key])
KeyChanged(st, old_state, key) ==
    key \in DOMAIN st /\ (key \notin DOMAIN old_state \/ old_state[key] # st[key])

\* _handle_state_change(state_name, new_value): "set_state" when it calls
\* set_state({state_name: new_value}, save_history=False), else "none".
HandleStateChange(st, state_name, new_value) ==
    IF state_name \notin DOMAIN st \/ st[state_name] # new_value
    THEN "set_state"
    ELSE "none"

\* The calls the loops of _trigger_watchers make when no handler raises:
\* handler(self._state[key], old_state.get(key)), key by key.
RECURSIVE WatcherCalls(_, _, _)
WatcherCalls(ws, st, old_state) ==
    IF ws = <<>> THEN <<>>
    ELSE LET w == Head(ws)
             calls ==
                 IF KeyChanged(st, old_state, w.key)
                 THEN [j \in 1..Len(w.handlers) |->
                         [key |-> w.key,
                          no |-> w.handlers[j].no,
                          kind |-> w.handlers[j].kind,
                          new |-> st[w.key],
                          old |-> DictGet(old_state, w.key, None),
                          nested |-> IF w.handlers[j].kind = "binding"
                                     THEN HandleStateChange(st, w.key, st[w.key])
                                     ELSE "none"]]
                 ELSE <<>>
         IN  calls \o WatcherCalls(Tail(ws), st, old_state)

\* _trigger_watchers(old_state): the calls made, up to and including the
\* first handler that raises.
TriggerWatchers(ws, st, old_state) ==
    LET all == WatcherCalls(ws, st, old_state)
        bad == {i \in 1..Len(all) : all[i].kind = "raise"}
        n == IF bad = {} THEN Len(all) ELSE CHOOSE i \in bad : \A j \in bad : i <= j
    IN  [calls |-> SubSeq(all, 1, n), raised |-> bad # {}]

\* The dependency lists effect is called with: None, [] and lists of keys.
Deps ==
    {[given |-> FALSE, keys |-> <<>>],
     [given |-> TRUE, keys |-> <<>>],
     [given |-> TRUE, keys |-> <<"a">>],
     [given |-> TRUE, keys |-> <<"b">>]}

\* What an effect function returns: None or a cleanup function.
EffectReturns == {None, "cleanup"}

\* Effects registered in a run.
MaxEffects == 1

\* if effect['deps']: a list that is neither None nor empty.
Truthy(deps) == deps.given /\ deps.keys # <<>>

\* should_run = True; if effect['deps']:
\*     should_run = any(key in self._state for key in effect['deps'])
ShouldRun(e, st) ==
    IF Truthy(e.deps)
    THEN \E i \in 1..Len(e.deps.keys) : e.deps.keys[i] \in DOMAIN st
    ELSE TRUE

\* _trigger_effects(): every effect that should run calls its cleanup, if it
\* holds one, then its function, and keeps what the function returned.
\* done is history: the cleanup the effect holds has been called; twice are
\* the effects whose cleanup is called again.
TriggerEffects(es, st) ==
    [effects |-> [i \in 1..Len(es) |->
                     IF ShouldRun(es[i], st)
                     THEN [es[i] EXCEPT !.cleanup = es[i].returns, !.done = FALSE]
                     ELSE es[i]],
     ran |-> {i \in 1..Len(es) : ShouldRun(es[i], st)},
     cleaned |-> {i \in 1..Len(es) :
                     ShouldRun(es[i], st) /\ es[i].cleanup # None},
     twice |-> {i \in 1..Len(es) :
                   ShouldRun(es[i], st) /\ es[i].cleanup # None /\ es[i].done}]

\* The effects loop of on_unmount: every effect that holds a cleanup calls
\* it, and goes on holding it.
UnmountEffects(es) ==
    [effects |-> [i \in 1..Len(es) |->
                     IF es[i].cleanup # None
                     THEN [es[i] EXCEPT !.done = TRUE]
                     ELSE es[i]],
     cleaned |-> {i \in 1..Len(es) : es[i].cleanup # None},
     twice |-> {i \in 1..Len(es) : es[i].cleanup # None /\ es[i].done}]

\* watch(state_key, handler).
watch(state_key, h) ==
    /\ HandlerCount(watchers) < MaxWatchers
    /\ watchers' = Watch(watchers, state_key, h)
    /\ last' = [op |-> "watch"]
    /\ UNCHANGED <<comp_state, prev_state, effects, bindings, lifecycle_state,
                   update_count, sets, saved, unsaved, bound>>
    /\ UNCHANGED <<context, notifierVars, eventVars, normVars, globalVars, registryVars>>

\* effect(effect_fn, dependencies).
effect(returns, deps) ==
    /\ Len(effects) < MaxEffects
    /\ effects' = Append(effects, [deps |-> deps, returns |-> returns,
                                    cleanup |-> None, done |-> FALSE])
    /\ last' = [op |-> "effect"]
    /\ UNCHANGED <<comp_state, prev_state, watchers, bindings, lifecycle_state,
                   update_count, sets, saved, unsaved, bound>>
    /\ UNCHANGED <<context, notifierVars, eventVars, normVars, globalVars, registryVars>>

\* self._state.update(new_state) changes a dict in place: the context, which
\* was given self._state at construction, sees the change while its state
\* field is still that dict.
ContextAfterUpdate(ctx, merged) ==
    IF ctx.same THEN [ctx EXCEPT !.state = merged] ELSE ctx

\* self._state = self._prev_state.pop() binds _state to another dict (a copy
\* set_state made): the context keeps the dict it was given.
ContextAfterRebind(ctx) == [ctx EXCEPT !.same = FALSE]

\* Component.set_state(new_state, save_history).  The call saves the
\* history, merges, triggers the watchers and the effects and then calls
\* self._update_computed(), which no class defines: it ends with the
\* exception of a handler or with that AttributeError, and never reaches
\* on_update.
component_set_state(new_state, save_history) ==
    LET old_state == comp_state
        merged == StateUpdate(comp_state, new_state)
        tw == TriggerWatchers(watchers, merged, old_state)
        te == TriggerEffects(effects, merged)
    IN  /\ sets < MaxSets
        /\ sets' = sets + 1
        /\ prev_state' = SaveHistory(prev_state, comp_state, save_history)
        /\ comp_state' = merged
        /\ context' = ContextAfterUpdate(context, merged)
        /\ effects' = IF tw.raised THEN effects ELSE te.effects
        /\ saved' = IF save_history THEN Append(saved, old_state) ELSE saved
        /\ unsaved' = (unsaved \/ ~save_history)
        /\ last' = [op |-> "set_state",
                    old_state |-> old_state,
                    state |-> merged,
                    nwatch |-> HandlerCount(watchers),
                    count |-> update_count,
                    calls |-> tw.calls,
                    ran |-> IF tw.raised THEN {} ELSE te.ran,
                    cleaned |-> IF tw.raised THEN {} ELSE te.cleaned,
                    twice |-> IF tw.raised THEN {} ELSE te.twice,
                    exc |-> IF tw.raised THEN "Exception" ELSE "AttributeError"]
        /\ UNCHANGED <<watchers, bindings, lifecycle_state, update_count, bound>>
        /\ UNCHANGED <<notifierVars, eventVars, normVars, globalVars, registryVars>>

\* Component.undo_state(): with a history, the state becomes the popped
\* entry and on_update runs; without one nothing happens.
undo_state ==
    /\ IF prev_state # <<>>
       THEN /\ comp_state' = prev_state[Len(prev_state)]
            /\ prev_state' = SubSeq(prev_state, 1, Len(prev_state) - 1)
            /\ lifecycle_state' = "updated"
            /\ update_count' = update_count + 1
            /\ context' = ContextAfterRebind(context)
       ELSE UNCHANGED <<comp_state, prev_state, lifecycle_state, update_count,
                        context>>
    /\ saved' = IF saved # <<>> THEN SubSeq(saved, 1, Len(saved) - 1) ELSE saved
    /\ last' = [op |-> "undo_state",
                old_state |-> comp_state,
                history |-> saved # <<>>,
                target |-> IF saved # <<>> THEN saved[Len(saved)] ELSE comp_state]
    /\ UNCHANGED <<watchers, effects, bindings, sets, unsaved, bound>>
    /\ UNCHANGED <<notifierVars, eventVars, normVars, globalVars, registryVars>>

\* Component.on_mount(): the component is mounted and the effects run.
on_mount ==
    LET te == TriggerEffects(effects, comp_state)
    IN  /\ lifecycle_state' = "mounted"
        /\ effects' = te.effects
        /\ last' = [op |-> "on_mount", ran |-> te.ran, cleaned |-> te.cleaned,
                    twice |-> te.twice]
        /\ UNCHANGED <<comp_state, prev_state, watchers, bindings, update_count,
                       sets, saved, unsaved, bound>>
        /\ UNCHANGED <<context, notifierVars, eventVars, normVars, globalVars, registryVars>>

\* Component.on_unmount(): before_unmount, the cleanup handlers (none is
\* ever added), the cleanups of the effects, the children (none), and the
\* component is unmounted.
on_unmount ==
    LET ue == UnmountEffects(effects)
    IN  /\ lifecycle_state' = "unmounted"
        /\ effects' = ue.effects
        /\ last' = [op |-> "on_unmount", ran |-> {}, cleaned |-> ue.cleaned,
                    twice |-> ue.twice]
        /\ UNCHANGED <<comp_state, prev_state, watchers, bindings, update_count,
                       sets, saved, unsaved, bound>>
        /\ UNCHANGED <<context, notifierVars, eventVars, normVars, globalVars, registryVars>>

\* State bindings (state_binding.py).  The JavaScript of a rule is written
\* on one line.

\* The binding types bind_state is called with; "bogus" is none it knows.
BindingTypes == {"text", "value", "attribute", "style", "transform", "bogus"}

\* The keyword arguments bind_state is called with: none, or all three.
Kwargs ==
    {[attribute |-> None, style_property |-> None, transform |-> None],
     [attribute |-> "title", style_property |-> "color", transform |-> "fmt"]}

\* bind_state calls in a run, over both components.
MaxBinds == 2

\* The id of the instance of class c.
IdOf(c) == IF c = "Component" THEN "comp" ELSE "base"

\* ScorpiUI.onStateChange('{state_name}', function(newState) {{ ... }});
OnStateChange(state_name, body) ==
    "ScorpiUI.onStateChange('" \o state_name \o "', function(newState) { "
        \o body \o " });"

GetElementById(target_id) == "document.getElementById('" \o target_id \o "')"

BindToText(state_name, target_id) ==
    OnStateChange(state_name, GetElementById(target_id) \o ".textContent = newState;")

BindToValue(state_name, target_id) ==
    OnStateChange(state_name, GetElementById(target_id) \o ".value = newState;")

BindToAttribute(state_name, target_id, attribute) ==
    OnStateChange(state_name,
        GetElementById(target_id) \o ".setAttribute('" \o attribute \o "', newState);")

BindToStyle(state_name, target_id, style_property) ==
    OnStateChange(state_name,
        GetElementById(target_id) \o ".style['" \o style_property \o "'] = newState;")

BindWithTransform(state_name, target_id, transform_function) ==
    OnStateChange(state_name,
        GetElementById(target_id) \o ".textContent = " \o transform_function
            \o "(newState);")

\* The if/elif chain of bind_state: the rule, or "ValueError".
Binding(state_name, binding_type, target_id, kwargs) ==
    CASE binding_type = "text" -> BindToText(state_name, target_id)
      [] binding_type = "value" -> BindToValue(state_name, target_id)
      [] binding_type = "attribute" ->
             BindToAttribute(state_name, target_id, kwargs.attribute)
      [] binding_type = "style" ->
             BindToStyle(state_name, target_id, kwargs.style_property)
      [] binding_type = "transform" ->
             BindWithTransform(state_name, target_id, kwargs.transform)
      [] OTHER -> "ValueError"

\* An append that keeps one copy of a rule.
BindingsAddOnce(bs, rule) ==
    IF \E i \in 1..Len(bs) : bs[i] = rule THEN bs ELSE Append(bs, rule)

\* self.bindings.append(binding)
BindingsAppend(bs, rule) == Append(bs, rule)

\* sep.join(parts)
RECURSIVE Join(_, _)
Join(parts, sep) ==
    IF parts = <<>> THEN ""
    ELSE IF Len(parts) = 1 THEN parts[1]
    ELSE parts[1] \o sep \o Join(Tail(parts), sep)

\* "\n".join(self.bindings)
GetBindings(bs) == Join(bs, "\n")

\* bind_state(state_name, binding_type, **kwargs) on the instance of class
\* c.  Component's also watches the state; an unknown type raises ValueError
\* before anything is appended.
bind_state(c, state_name, binding_type, kwargs) ==
    LET rule == Binding(state_name, binding_type, IdOf(c), kwargs)
    IN  /\ Len(bindings["BaseComponent"]) + Len(bindings["Component"]) < MaxBinds
        /\ c = "Component" => HandlerCount(watchers) < MaxWatchers
        /\ IF rule = "ValueError"
           THEN UNCHANGED <<bindings, bound, watchers>>
           ELSE /\ bindings' = [bindings EXCEPT ![c] = BindingsAppend(@, rule)]
                /\ bound' = [bound EXCEPT ![c] = Append(@, rule)]
                /\ watchers' = IF c = "Component"
                               THEN Watch(watchers, state_name, "binding")
                               ELSE watchers
        /\ last' = [op |-> "bind_state",
                    cls |-> c,
                    before |-> bindings[c],
                    exc |-> IF rule = "ValueError" THEN "ValueError" ELSE "none"]
        /\ UNCHANGED <<comp_state, prev_state, effects, lifecycle_state,
                       update_count, sets, saved, unsaved>>
        /\ UNCHANGED <<context, notifierVars, eventVars, normVars, globalVars, registryVars>>

\* get_bindings() on the instance of class c.
get_bindings(c) ==
    /\ last' = [op |-> "get_bindings", cls |-> c, result |-> GetBindings(bindings[c])]
    /\ UNCHANGED <<comp_state, prev_state, watchers, effects, bindings,
                   lifecycle_state, update_count, sets, saved, unsaved, bound>>
    /\ UNCHANGED <<context, notifierVars, eventVars, normVars, globalVars, registryVars>>

\* A component with watchers and bindings whose state is set and undone.
NextComponent ==
    \/ \E k \in StateKeys : \E h \in WatcherKinds : watch(k, h)
    \/ \E k \in StateKeys : \E kw \in Kwargs : bind_state("Component", k, "text", kw)
    \/ \E new \in NewStates : \E save \in BOOLEAN : component_set_state(new, save)
    \/ undo_state

SpecComponent == Init /\ [][NextComponent]_vars

\* A component with effects that is mounted and whose state is set.
NextEffects ==
    \/ \E r \in EffectReturns : \E d \in Deps : effect(r, d)
    \/ on_mount
    \/ on_unmount
    \/ \E new \in NewStates : \E save \in BOOLEAN : component_set_state(new, save)
    \/ undo_state

SpecEffects == Init /\ [][NextEffects]_vars

\* The bindings of a BaseComponent and of a Component.
NextBindings ==
    \/ \E c \in {"BaseComponent", "Component"} : \E k \in StateKeys :
       \E t \in BindingTypes : \E kw \in Kwargs : bind_state(c, k, t, kw)
    \/ \E c \in {"BaseComponent", "Component"} : get_bindings(c)

SpecBindings == Init /\ [][NextBindings]_vars

----------------------------------------------------------------------------
\* Event registration by the components and by the counter example.

\* The ids the components are constructed with.
ComponentIds ==
    {"increment-input", "increment-button", "decrement-button", "reset-button"}

\* The event types components register handlers for.
EventTypes == {"input", "focus", "blur", "click", "change"}

\* The handler arguments of TextInput.
TextInputHandlers == {"onchange", "oninput", "onfocus", "onblur"}

\* Keys in event_handlers in a run of the registrations.
MaxKeys == 4

\* f"{id}_{event_type}"
EventKey(id, event_type) == id \o "_" \o event_type

\* if onclick and not disabled: register_event(event_id, onclick)
RegisterIf(entries, given, event_id, h) ==
    IF given THEN HandlersSet(entries, event_id, h) ELSE entries

\* TextInput.__init__(id, onchange, oninput, onfocus, onblur): given holds
\* the handlers passed.  The module does not import register_event: the
\* first registration it reaches (of onchange under the id itself, or of
\* another handler under EventKey) raises NameError, and nothing is
\* registered.
TextInput(id, given) ==
    /\ event_handlers' = event_handlers
    /\ last' = [op |-> "TextInput",
                id |-> id,
                exc |-> IF given = {} THEN "none" ELSE "NameError"]
    /\ UNCHANGED <<connected, sent, req, registered>>
    /\ UNCHANGED <<comp_state, prev_state, watchers, effects, bindings,
                   lifecycle_state, update_count, sets, saved, unsaved, bound,
                   context>>
    /\ UNCHANGED <<notifierVars, normVars, globalVars, registryVars>>

\* Buttons constructed in a run.
MaxButtons == 2

\* uuid.uuid4().hex: the n-th id generated in the run.
Uuid(n) == "uuid" \o ToString(n)

\* self.id = id if id else uuid.uuid4().hex
SelfId(id, n) == IF id = None THEN Uuid(n) ELSE id

\* The event the rendered button emits when clicked:
\* {% if not disabled %}onclick="ScorpiUI.emit('{{ id }}_click', ...)", with
\* id=self.id.
RenderedEvent(self_id, disabled) ==
    IF disabled THEN None ELSE EventKey(self_id, "click")

\* Button.__init__(id, onclick, disabled): id is the argument (None when
\* none is passed), and the registration formats the argument, not self.id.
\* History: the button's id, the key it registered and the event its markup
\* emits are recorded.
Button(id, onclick, disabled) ==
    LET generated == Cardinality({i \in 1..Len(buttons) : ~buttons[i].given})
        self_id == SelfId(id, generated + 1)
        e1 == RegisterIf(event_handlers, onclick /\ ~disabled,
                         EventKey(id, "click"), "H1")
    IN  /\ Len(buttons) < MaxButtons
        /\ Len(e1) <= MaxKeys
        /\ event_handlers' = e1
        /\ buttons' = Append(buttons,
                             [id |-> self_id,
                              given |-> id # None,
                              key |-> IF onclick /\ ~disabled
                                      THEN EventKey(id, "click") ELSE None,
                              emits |-> RenderedEvent(self_id, disabled)])
        /\ UNCHANGED <<connected, sent, req, registered>>
        /\ UNCHANGED <<notifierVars, normVars, globalVars, componentVars>>

\* EventMixin.on(event_type, handler) of the component with this id.
on(id, event_type) ==
    LET e1 == HandlersSet(event_handlers, EventKey(id, event_type), "H1")
    IN  /\ Len(e1) <= MaxKeys
        /\ event_handlers' = e1
        /\ UNCHANGED <<connected, sent, req, registered>>
        /\ UNCHANGED <<notifierVars, normVars, globalVars, componentVars, registryVars>>

\* The register_event calls of the counter example.
counter_app ==
    LET e1 == HandlersSet(event_handlers, "increment-input", "H1")
        e2 == HandlersSet(e1, "increment-button_click", "H1")
        e3 == HandlersSet(e2, "decrement-button_click", "H1")
        e4 == HandlersSet(e3, "reset-button_click", "H1")
    IN  /\ Len(e4) <= MaxKeys
        /\ event_handlers' = e4
        /\ UNCHANGED <<connected, sent, req, registered>>
        /\ UNCHANGED <<notifierVars, normVars, globalVars, componentVars, registryVars>>

NextRegistry ==
    \/ \E given \in SUBSET TextInputHandlers : TextInput("increment-input", given)
    \/ \E id \in {"increment-button", None} :
       \E onclick, disabled \in BOOLEAN : Button(id, onclick, disabled)
    \/ \E t \in {"click", "change"} : on("increment-input", t)
    \/ counter_app

SpecRegistry == Init /\ [][NextRegistry]_vars

----------------------------------------------------------------------------
\* Properties.  They read the frames: a frame at "done" is a call that has
\* ended and has not yet returned to its caller.

Frames == UNION {{stack[w][i] : i \in 1..Len(stack[w])} : w \in Workers}

\* The calls that have ended.
Returned == {f \in Frames : f.pc = "done"}

\* The calls that have ended and whose value differed from _state.
Changing == {f \in Returned : f.arg # f.pre}

\* How often the pass of call f invoked subscriber id.
Count(f, id) == Cardinality({i \in 1..Len(f.inv) : f.inv[i].sub = id})

\* How often the pass of call f invoked subscriber id and passed it v.
CountWith(f, id, v) ==
    Cardinality({i \in 1..Len(f.inv) : f.inv[i].sub = id /\ f.inv[i].val = v})

AllIdle == \A w \in Workers : Idle(w)

\* C1: once every call has returned, a subscriber that is still subscribed and
\* whose callback only records has been invoked as many times as there were
\* set_state/update_state calls, made since it subscribed, whose new value
\* differed from the notifier's state when the call compared them.
C1_InvocationsEqualChanges ==
    AllIdle =>
        \A id \in Live(subscribers) : callbacks[id] = "rec" => got[id] = want[id]

\* C2: a set_state whose value equals the current state is a no-op: it does
\* not assign _state, the state and the subscribers are what they were when
\* it was called, no callback is invoked, nothing is emitted and nothing is
\* raised.
C2_EqualValueIsNoOp ==
    \A f \in Returned : f.arg = f.pre =>
        /\ ~f.stored
        /\ state = f.pre
        /\ Live(subscribers) = f.snap
        /\ f.inv = <<>>
        /\ f.emits = 0
        /\ ~f.exc

\* C2's case: a ComponentState with a subscriber has returned from a
\* set_state of the value it held.
C2_EqualValueCallReturned ==
    \E f \in Returned :
        /\ f.op = "set_state"
        /\ f.arg = f.pre
        /\ f.snap # {}
        /\ cls = "ComponentState"

\* C3: a set_state whose value differs from the current state (and during
\* which no other call stores) stores the value before any callback runs,
\* invokes every subscriber registered when it was called exactly once, and
\* passes the new value in every invocation.
C3_EverySubscriberOnceWithNewValue ==
    \A f \in Changing : ~f.dirty =>
        /\ f.stored
        /\ \A id \in f.snap : Count(f, id) = 1
        /\ \A i \in 1..Len(f.inv) : f.inv[i].val = f.arg

\* C4: a call in whose pass a callback raised has stored its value, has
\* invoked every subscriber registered when the pass began, and returns
\* without raising.
C4_RaisingSubscriberIsolated ==
    \A f \in Returned : f.raised =>
        /\ ~f.exc
        /\ f.stored
        /\ \A id \in f.psnap : Count(f, id) = 1

\* C5: a callback is not invoked by subscribe, nor before a call changes the
\* state; a set_state whose value differs from the state invokes every
\* subscribed callback exactly once, with that value; and no pass invokes a
\* callback whose unsubscribe had returned before the call began.
C5_SubscribeNotifyUnsubscribe ==
    /\ \A id \in 1..Len(callbacks) : want[id] = 0 => got[id] = 0
    /\ \A f \in Changing : ~f.dirty =>
           \A id \in f.snap : Count(f, id) = 1 /\ CountWith(f, id, f.arg) = 1
    /\ \A f \in Frames : \A i \in 1..Len(f.inv) : f.inv[i].sub \notin f.removed0

\* C6: a call during whose pass a subscribe or an unsubscribe ran returns
\* without raising, having invoked exactly the subscribers registered when
\* the pass began, once each.
C6_PassNotifiesItsSnapshot ==
    \A f \in Returned : f.mutated =>
        /\ ~f.exc
        /\ \A id \in 1..Len(callbacks) :
               Count(f, id) = IF id \in f.psnap THEN 1 ELSE 0

\* C7: no pass invokes a callback whose unsubscribe has already returned.
C7_NoInvocationAfterUnsubscribe ==
    \A f \in Frames : \A i \in 1..Len(f.inv) : ~f.inv[i].late

\* C23: unsubscribe raises nothing; with an unknown or already-removed id it
\* changes nothing; with a registered id it removes that subscriber only, so
\* the registered subscribers are always the issued ids not unsubscribed, and
\* every call that changes the state (and during which no other call stores
\* and nothing subscribes) returns normally, having invoked once each
\* subscriber that was registered when it began and has not been
\* unsubscribed.
C23_UnsubscribeRemovesOnlyThatId ==
    /\ Live(subscribers) = (1..Len(callbacks)) \ removed
    /\ \A f \in Returned :
           (/\ f.arg # f.pre
            /\ ~f.dirty
            /\ 1..Len(callbacks) = f.snap \cup f.removed0) =>
               /\ ~f.exc
               /\ \A id \in f.snap \ removed : Count(f, id) = 1

\* A top-level unsubscribe is total and changes only the registration of the
\* id it was given.
UnsubscribeIsTotal ==
    [][\A id \in 1..UnknownId :
           unsubscribe("w1", id) =>
               /\ Live(subscribers') = Live(subscribers) \ {id}
               /\ Idle("w1")'
               /\ UNCHANGED <<state, callbacks, outbox>>]_vars

\* C23 outside C6's case: a changing call during which nothing subscribed,
\* unsubscribed or stored invokes every subscriber left registered.
UndisturbedUnsubscribe ==
    /\ Live(subscribers) = (1..Len(callbacks)) \ removed
    /\ \A f \in Returned : (f.arg # f.pre /\ ~f.dirty /\ ~f.mutated) =>
           /\ ~f.exc
           /\ \A id \in f.snap \ removed : Count(f, id) = 1

\* C8: when each of the threads has made one update_state(lambda c: c + 1)
\* call, starting from state 0, and both calls have ended, the state is the
\* number of threads.
C8_NoLostUpdate ==
    (/\ ops = Cardinality(Workers)
     /\ \A w \in Workers :
            /\ Len(stack[w]) = 1
            /\ Top(w).pc = "done"
            /\ Top(w).op = "update_state")
        => state = Cardinality(Workers)

\* C9: a set_state on a ComponentState whose value differs from the state
\* (and during which no other call stores) calls emit exactly once, with the
\* new state, after every subscriber registered when it was called has been
\* invoked, and what emit delivers is the state_change message with the
\* component_id.
C9_OneStateChangePerChange ==
    \A f \in Changing : (cls = "ComponentState" /\ ~f.dirty) =>
        /\ f.emits = 1
        /\ f.msg = f.arg
        /\ f.emitAt = Len(f.inv)
        /\ \A id \in f.snap : Count(f, id) = 1
        /\ f.emit = "ok" =>
               \E i \in 1..Len(outbox) :
                   outbox[i] = [event |-> "state_change",
                                component_id |-> ComponentId,
                                state |-> f.arg]

\* C10: a call whose emit failed returns without raising, has stored its
\* value (which is the state unless another call stored after it), has
\* invoked every subscriber registered when its pass began before the emit,
\* and has called emit once.
C10_EmitFailureIsSwallowed ==
    \A f \in Returned : f.emit = "fail" =>
        /\ ~f.exc
        /\ f.stored
        /\ ~f.dirty => state = f.arg
        /\ \A id \in f.psnap : Count(f, id) = 1
        /\ f.emitAt = Len(f.inv)
        /\ f.emits = 1

\* C10's case: a call that notified a subscriber has ended with a failed emit.
C10_EmitFailedAfterNotifying ==
    \E f \in Returned : f.emit = "fail" /\ f.psnap # {} /\ f.inv # <<>>

----------------------------------------------------------------------------
\* What the code does keep when no subscribe or unsubscribe runs during a
\* pass: the counts, the once-each notification with the new value, the
\* isolation of a raising callback and the single emit.

UndisturbedCounts ==
    (AllIdle /\ ~mutInPass) =>
        \A id \in Live(subscribers) : callbacks[id] # "raise" => got[id] = want[id]

UndisturbedPass ==
    \A f \in Changing : (~f.dirty /\ ~f.mutated) =>
        /\ f.stored
        /\ \A id \in f.snap : Count(f, id) = 1 /\ CountWith(f, id, f.arg) = 1
        /\ \A i \in 1..Len(f.inv) : f.inv[i].val = f.arg

UndisturbedRaise ==
    \A f \in Returned : (f.raised /\ ~f.mutated) =>
        /\ ~f.exc
        /\ f.stored
        /\ \A id \in f.psnap : Count(f, id) = 1

UndisturbedEmit ==
    \A f \in Changing : (cls = "ComponentState" /\ ~f.dirty /\ ~f.mutated) =>
        /\ f.emits = 1
        /\ f.msg = f.arg
        /\ f.emitAt = Len(f.inv)
        /\ \A id \in f.snap : Count(f, id) = 1

----------------------------------------------------------------------------
\* Properties of the event layer.  They read req and sent: the latest
\* inbound message and what its handling emitted.

IsEvent == req.kind = "component_event"

\* The messages of the kind ev among those emitted.
CountEvent(ev) == Cardinality({i \in 1..Len(sent) : sent[i].event = ev})

\* The latest message was a mapping with an event_id field.
Valid == req.msg.kind = "dict" /\ req.msg.has_id

\* The latest message reached a handler, which raised.
HandlerRaised ==
    /\ IsEvent
    /\ req.handler # "none"
    /\ req.behaviour \in {"raise", "update_raise"}

\* C11: every state_change message emitted while a client's event is handled
\* is sent to every client connected at that time.
C11_StateChangeReachesEveryClient ==
    IsEvent =>
        \A i \in 1..Len(sent) :
            sent[i].event = "state_change" => connected \subseteq sent[i].to

\* C12, as stated: handling an inbound component_event message emits exactly
\* one reply (event_response or error; state_change is not counted).
C12_ExactlyOneReply ==
    IsEvent => CountEvent("event_response") + CountEvent("error") = 1

\* C12, amended: a message that is malformed or reaches a handler gets
\* exactly one reply, which is an event_response exactly when the handler
\* returned and its response could be sent; a well-formed message whose
\* event_id is empty or has no handler gets no reply.
C12_OneReplyWhenHandledOrMalformed ==
    IsEvent =>
        /\ (~Valid \/ req.handler # "none") =>
               CountEvent("event_response") + CountEvent("error") = 1
        /\ (Valid /\ req.handler = "none") =>
               CountEvent("event_response") + CountEvent("error") = 0
        /\ CountEvent("event_response") = 1 <=>
               (req.handler # "none" /\ req.behaviour \in {"return", "update"})

\* C12's case: a handler changed the ComponentState and returned, and the
\* handling emitted a state_change and its reply.
C12_HandledWithStateChange ==
    /\ IsEvent
    /\ req.behaviour = "update"
    /\ CountEvent("state_change") = 1
    /\ CountEvent("event_response") = 1

\* C13: a well-formed message whose event_id has no entry in the registry
\* raises nothing, invokes no handler and emits nothing.
C13_UnregisteredIsDropped ==
    (/\ IsEvent
     /\ Valid
     /\ \A i \in 1..Len(req.before) : req.before[i].key # req.msg.event_id) =>
        /\ ~req.raised
        /\ req.invoked = <<>>
        /\ CountEvent("error") = 0
        /\ sent = <<>>

\* C13's case: an event id without a handler was dispatched while another
\* id had one.
C13_UnregisteredDispatched ==
    /\ IsEvent
    /\ Valid
    /\ req.msg.event_id = "b"
    /\ req.before # <<>>
    /\ \A i \in 1..Len(req.before) : req.before[i].key # "b"

\* C14: when the handler raised, exactly one error and no event_response is
\* emitted and the registry is what it was; and the dispatch that follows
\* one in which the handler raised is processed normally: a handler that
\* returns is invoked once and its event_response is the only reply.
C14_RaisingHandlerGivesOneError ==
    /\ HandlerRaised =>
           /\ CountEvent("error") = 1
           /\ CountEvent("event_response") = 0
           /\ event_handlers = req.before
    /\ (IsEvent /\ req.afterRaise /\ req.handler # "none"
            /\ req.behaviour = "return") =>
           /\ req.invoked = <<req.handler>>
           /\ sent = <<Emit(req.sid, "event_response", req.msg.event_id, "ok")>>
           /\ ~req.raised

\* C14's case: a handler returned in the dispatch that followed one in which
\* a handler raised.
C14_DispatchedAfterRaise ==
    /\ IsEvent
    /\ req.afterRaise
    /\ req.handler # "none"
    /\ req.behaviour = "return"

\* C15: handle_socket_event returns normally, whatever the message and
\* whatever the handler does.
C15_NothingLeavesTheEntryPoint ==
    IsEvent => ~req.raised

\* C15's case: the handler of the latest message changed the state and then
\* raised.
C15_HandlerRaisedAfterUpdate ==
    HandlerRaised /\ req.behaviour = "update_raise" /\ req.stored

\* C16: a message that is not a mapping, or a mapping without event_id, gets
\* exactly the one structural error; no handler is invoked and nothing is
\* raised.
C16_MalformedGetsStructuralError ==
    (IsEvent /\ (req.msg.kind # "dict" \/ ~req.msg.has_id)) =>
        /\ sent = <<Emit(req.sid, "error", None, "Invalid event data")>>
        /\ req.invoked = <<>>
        /\ ~req.raised

\* C16's case: a mapping without event_id arrived while handlers were
\* registered.
C16_MappingWithoutIdArrived ==
    /\ IsEvent
    /\ req.msg.kind = "dict"
    /\ ~req.msg.has_id
    /\ req.before # <<>>

\* C17: the registry holds one entry for every id that was registered, with
\* the handler registered last, and a dispatch of that id invokes that
\* handler once and no other.
C17_LastRegistrationWins ==
    /\ \A id \in EventIds : registered[id] # <<>> =>
           /\ Cardinality({i \in 1..Len(event_handlers) :
                               event_handlers[i].key = id}) = 1
           /\ \A i \in 1..Len(event_handlers) :
                  event_handlers[i].key = id =>
                      event_handlers[i].handler = registered[id][Len(registered[id])]
    /\ (IsEvent /\ Valid /\ req.msg.event_id \in EventIds) =>
           LET regs == registered[req.msg.event_id]
           IN  regs # <<>> => req.invoked = <<regs[Len(regs)]>>

\* C17's case: "a" was registered with H1 and then with H2, and dispatched.
C17_ReplacedThenDispatched ==
    /\ IsEvent
    /\ Valid
    /\ req.msg.event_id = "a"
    /\ registered["a"] = <<"H1", "H2">>
    /\ req.invoked = <<"H2">>

\* C25: when the handler changed the ComponentState and returned the new
\* value, the handling emitted one event_response, with the event_id and
\* that value as response, and one state_change, with the component_id and
\* the same value as state.
C25_ResponseAndStateChange ==
    (IsEvent /\ req.handler # "none" /\ req.behaviour = "update" /\ req.stored) =>
        /\ CountEvent("event_response") = 1
        /\ CountEvent("state_change") = 1
        /\ \A i \in 1..Len(sent) :
            /\ sent[i].event = "event_response" =>
                   sent[i].id = req.msg.event_id /\ sent[i].data = ToString(state)
            /\ sent[i].event = "state_change" =>
                   sent[i].id = ComponentId /\ sent[i].data = ToString(state)

\* C25's case: the increment handler took the counter from 0 to 1.
C25_IncrementHandled ==
    /\ IsEvent
    /\ req.behaviour = "update"
    /\ req.stored
    /\ state = 1
    /\ Len(sent) = 2

----------------------------------------------------------------------------
\* Properties of payload normalization.

\* C18: from_dict returns an EventData for every payload, and for a mapping
\* every field the mapping carries is kept while every field it lacks has its
\* default: value None, event type "change", key None, meta {}.
C18_MissingFieldsTakeDefaults ==
    raw.kind # "none" =>
        /\ event.kind = "EventData"
        /\ raw.kind = "dict" =>
            /\ event.value = IF "value" \in DOMAIN raw.map THEN raw.map["value"] ELSE "None"
            /\ event.event_type = IF "type" \in DOMAIN raw.map THEN raw.map["type"] ELSE "change"
            /\ event.key = IF "key" \in DOMAIN raw.map THEN raw.map["key"] ELSE "None"
            /\ event.meta = IF "meta" \in DOMAIN raw.map THEN raw.map["meta"] ELSE "{}"
            /\ "target_id" \in DOMAIN raw.map => event.target_id = raw.map["target_id"]

\* C18's case: a mapping with a value and a type and nothing else has been
\* normalized.
C18_PartialMappingNormalized ==
    /\ raw.kind = "dict"
    /\ DOMAIN raw.map = {"value", "type"}
    /\ raw.map["value"] = "x"
    /\ raw.map["type"] = "click"
    /\ event.kind = "EventData"

\* C19: normalizing a payload that is not a mapping gives an EventData whose
\* value is the payload, whose event type is "change" and whose meta is {}.
C19_RawPayloadGetsSameDefaults ==
    raw.kind = "raw" =>
        /\ event.value = raw.raw
        /\ event.event_type = "change"
        /\ event.meta = "{}"

----------------------------------------------------------------------------
\* Properties of the global registry.

\* C20: register_state on a key that is already registered raises, and
\* leaves the registry as it was: the key maps to the notifier it mapped to,
\* with the state and the subscribers that notifier had.
C20_DuplicateRegistrationFails ==
    (lastCall.op = "register_state" /\ lastCall.key \in DOMAIN lastCall.before) =>
        /\ lastCall.raised
        /\ states = lastCall.before
        /\ states[lastCall.key] = lastCall.before[lastCall.key]

\* C20's case: register_state was called with a new value on a key whose
\* notifier has a subscriber and a state other than its initial one.
C20_DuplicateRegistrationTried ==
    /\ lastCall.op = "register_state"
    /\ lastCall.key \in DOMAIN lastCall.before
    /\ lastCall.before[lastCall.key].subs > 0
    /\ lastCall.before[lastCall.key].state = 1
    /\ lastCall.arg = 0

\* C21: get_state on a key that is not registered raises and creates
\* nothing: the registry, and so its set of keys, is what it was.
C21_MissingLookupFails ==
    (lastCall.op = "get_state" /\ lastCall.key \notin DOMAIN lastCall.before) =>
        /\ lastCall.raised
        /\ DOMAIN states = DOMAIN lastCall.before
        /\ states = lastCall.before

\* C21's case: a key that is not registered was looked up while another key
\* was registered.
C21_MissingKeyLookedUp ==
    /\ lastCall.op = "get_state"
    /\ lastCall.key \notin DOMAIN lastCall.before
    /\ DOMAIN lastCall.before # {}

\* C22: remove_state on a key that is not registered raises.
C22_MissingRemovalFails ==
    (lastCall.op = "remove_state" /\ lastCall.key \notin DOMAIN lastCall.before) =>
        lastCall.raised

----------------------------------------------------------------------------
\* Properties of the counter: update_state(lambda c: c + 1) calls only.

\* C24: the k-th update_state call stores k and passes k, once, to every
\* subscriber registered when it was called, and to nobody else; so a
\* recording subscriber registered from the start has recorded 1, 2, ..., n
\* after n calls, and the state is n.
C24_UpdatesObservedInOrder ==
    /\ AllIdle => state = ops
    /\ \A f \in Returned :
        /\ f.arg = ops
        /\ state = ops
        /\ Len(f.inv) = Cardinality(f.snap)
        /\ \A id \in f.snap : CountWith(f, id, ops) = 1
    /\ AllIdle => \A id \in 1..Len(callbacks) : got[id] = want[id] /\ got[id] <= ops

\* C24's case: a subscriber registered before the first call has been passed
\* the value of each of the MaxOps calls, and all of them have returned.
C24_AllUpdatesRecorded ==
    /\ AllIdle
    /\ ops = MaxOps
    /\ Len(callbacks) > 0
    /\ got[1] = MaxOps
    /\ state = MaxOps

----------------------------------------------------------------------------
\* Properties of the components.  They read last: the latest call.

\* The rules joined by newlines, built from the last rule back.
RECURSIVE Lines(_)
Lines(rules) ==
    IF rules = <<>> THEN ""
    ELSE IF Len(rules) = 1 THEN rules[1]
    ELSE Lines(SubSeq(rules, 1, Len(rules) - 1)) \o "\n" \o rules[Len(rules)]

\* C26: a component's binding list holds the rules of the bind_state calls
\* that returned, one per call, in call order, duplicates included; a call
\* that returns appends its rule and a call that raises leaves the list as
\* it was; get_bindings returns those rules joined by newlines.
C26_BindingsAppendOnly ==
    /\ \A c \in DOMAIN bindings : bindings[c] = bound[c]
    /\ last.op = "bind_state" =>
           IF last.exc = "none"
           THEN /\ Len(bindings[last.cls]) = Len(last.before) + 1
                /\ SubSeq(bindings[last.cls], 1, Len(last.before)) = last.before
           ELSE bindings[last.cls] = last.before
    /\ last.op = "get_bindings" => last.result = Lines(bound[last.cls])

\* C26's case: get_bindings has returned for a component bound twice with
\* the same rule.
C26_DuplicateRuleJoined ==
    /\ last.op = "get_bindings"
    /\ Len(bindings[last.cls]) = 2
    /\ bindings[last.cls][1] = bindings[last.cls][2]
    /\ last.result = bindings[last.cls][1] \o "\n" \o bindings[last.cls][1]

\* C28: undo_state leaves the state as it was before the most recent
\* set_state that saved history and has not been undone, or as it found it
\* when there is none; and when every saving set_state has been undone and
\* no set_state was made without saving, the state is the initial one.
C28_UndoRestores ==
    /\ last.op = "undo_state" => comp_state = last.target
    /\ (last.op = "undo_state" /\ ~last.history) =>
           /\ comp_state = last.old_state
           /\ prev_state = <<>>
    /\ (saved = <<>> /\ ~unsaved) => comp_state = <<>>

\* C28's case: MaxSets saving set_state calls have been undone one by one and
\* the last undo_state has brought the initial state back.
C28_AllUndone ==
    /\ last.op = "undo_state"
    /\ last.history
    /\ last.old_state # <<>>
    /\ sets = MaxSets
    /\ update_count = MaxSets
    /\ ~unsaved
    /\ comp_state = <<>>

C30_EffectsRunOnlyOnDependencyChange ==
    last.op = "set_state" =>
        \A i \in last.ran : Truthy(effects[i].deps) =>
            \E d \in 1..Len(effects[i].deps.keys) :
                LET k == effects[i].deps.keys[d]
                IN  /\ k \in DOMAIN last.state
                    /\ (k \notin DOMAIN last.old_state
                        \/ last.old_state[k] # last.state[k])

\* C27: every key of the event registry is "{component_id}_{event_type}"
\* for a component id and an event type, and none is a bare component id.
C27_OneKeyScheme ==
    \A i \in 1..Len(event_handlers) :
        /\ event_handlers[i].key \in
               {EventKey(c, t) : c \in ComponentIds, t \in EventTypes}
        /\ event_handlers[i].key \notin ComponentIds

\* C31: the cleanup an effect's run returned is called once, before the
\* effect's next run or at unmount: no on_mount, set_state or on_unmount
\* calls a cleanup that has already been called.
C31_CleanupCalledOncePerRun ==
    last.op \in {"on_mount", "set_state", "on_unmount"} => last.twice = {}

\* C32: a callback is passed the notifier's state as it is when the callback
\* is invoked, also when a callback of the pass called set_state again; and
\* within the calls in progress no subscriber is passed a state assigned
\* earlier than one it was already passed.
C32_CallbackGetsCurrentState ==
    \A w \in Workers : \A i \in 1..Len(stack[w]) :
        LET f == stack[w][i] IN
        \A k \in 1..Len(f.inv) :
            /\ f.inv[k].val = f.inv[k].cur
            /\ \A j \in 1..i : \A m \in 1..Len(stack[w][j].inv) :
                 (j < i \/ (j = i /\ m < k))
                   /\ stack[w][j].inv[m].sub = f.inv[k].sub
                   => stack[w][j].inv[m].ver <= f.inv[k].ver

\* A pass of set_state(1) went on after a callback's own set_state(0) had
\* returned, and passed 0 to a later subscriber.
C32_OuterPassSeesInnerState ==
    \E w \in Workers :
        /\ Len(stack[w]) = 1
        /\ stack[w][1].stored
        /\ \E k \in 1..Len(stack[w][1].inv) :
              /\ stack[w][1].inv[k].val # stack[w][1].arg
              /\ stack[w][1].inv[k].ver > 1

\* C33: among the messages emitted while one inbound event is handled, every
\* state_change caused by the handler comes before the event_response.
C33_StateChangeBeforeResponse ==
    IsEvent =>
        \A i, j \in 1..Len(sent) :
            (sent[i].event = "state_change" /\ sent[j].event = "event_response")
                => i < j

\* C33's case: the handler of "b" changed the ComponentState and returned;
\* the state_change went out first and the event_response second.
C33_BothEmittedForB ==
    /\ IsEvent
    /\ req.msg.event_id = "b"
    /\ req.stored
    /\ Len(sent) = 2
    /\ sent[1].event = "state_change"
    /\ sent[2].event = "event_response"

\* C34: when the handler changed the ComponentState and then raised, the
\* new state stays stored, its state_change was emitted, and the event ends
\* with one error and no event_response.
C34_NoRollbackOnRaise ==
    (IsEvent /\ req.handler # "none" /\ req.behaviour = "update_raise"
        /\ req.stored) =>
        /\ state = Updater(req.pre)
        /\ state # req.pre
        /\ sent = <<Emit(req.sid, "state_change", ComponentId, ToString(state)),
                    Emit(req.sid, "error", None, "str(e)")>>
        /\ outbox # <<>>
        /\ outbox[Len(outbox)].state = state

\* C34's case: the handler took the counter from 0 to 1 and raised.
C34_RaisedAfterIncrement ==
    /\ IsEvent
    /\ req.behaviour = "update_raise"
    /\ req.stored
    /\ req.pre = 0
    /\ state = 1
    /\ CountEvent("error") = 1

C36_EmptyEventIdDropped ==
    (IsEvent /\ req.msg.kind = "dict" /\ req.msg.has_id
        /\ req.msg.event_id = "") =>
        /\ req.invoked = <<>>
        /\ sent = <<>>
        /\ ~req.raised
        /\ ~req.stored

\* C36's case: a mapping with an empty event_id arrived while both ids had
\* a handler.
C36_EmptyIdWhileRegistered ==
    /\ IsEvent
    /\ req.msg.kind = "dict"
    /\ req.msg.has_id
    /\ req.msg.event_id = ""
    /\ Len(req.before) = 2

\* C37: an enabled Button constructed with an onclick handler registered it
\* under the event its markup emits, also when its id was generated; and two
\* buttons constructed without an id registered different keys.
C37_ButtonKeyIsEmittedEvent ==
    /\ \A i \in 1..Len(buttons) :
           buttons[i].key # None => buttons[i].key = buttons[i].emits
    /\ \A i, j \in 1..Len(buttons) :
           (i # j /\ ~buttons[i].given /\ ~buttons[j].given
               /\ buttons[i].key # None /\ buttons[j].key # None)
               => buttons[i].key # buttons[j].key

\* C38: the state the context holds is the component's state.
C38_ContextStateIsState ==
    context.same /\ context.state = comp_state

\* C39: a set_state that reached a watcher installed by bind_state made no
\* nested set_state for the value it had stored, and ran on_update once:
\* update_count is one more than before the call.
C39_BoundSetStateUpdatesOnce ==
    (/\ last.op = "set_state"
     /\ last.exc # "Exception"
     /\ \E i \in 1..Len(last.calls) : last.calls[i].kind = "binding") =>
        /\ \A i \in 1..Len(last.calls) : last.calls[i].nested = "none"
        /\ update_count = last.count + 1

====
